---------------------------- MODULE Spec2Model ----------------------------
(***************************************************************************)
(* SuperCourier mini ETL pipeline (src/de-code-snippet.py).                *)
(*                                                                         *)
(* The deliveries table, the weather mapping and the pandas frames are     *)
(* sequences of records; a missing cell (NaN / NaT / None) is an explicit  *)
(* marker value.  Numbers are exact fixed-point integers:                  *)
(*   Distance, Actual_Delivery_Time   in 1/100                             *)
(*   rate                             in 1/100                             *)
(*   Base_Theoretical_Time            in 1/500                             *)
(*   parcel and zone factors          in 1/10, weather factor in 1/20      *)
(*   Adjustment                       in 1/2000                            *)
(*   Adjusted_Time                    in 1/1000000                         *)
(*   Delay_Threshold                  in 1/2500000                         *)
(* so every product of the scoring model is exact and fits 32 bits.  The   *)
(* rounding of IEEE doubles is not modelled: the draws are grid points at  *)
(* which the double computation yields the same Status as the exact one.   *)
(***************************************************************************)
EXTENDS Integers, Sequences, FiniteSets, TLC

VARIABLES
    pc,              \* position of the driver
    db,              \* rows of the deliveries table (supercourier_mini.db)
    weather_file,    \* content of weather_data.json
    weather_data,    \* the mapping date -> hour -> condition held by the driver
    data,            \* the mapping read back by load_weather_data
    rng,             \* the stream of (Distance, rate) draws of numpy's generator
    df_deliveries,   \* frame returned by extract_sqlite_data
    df_test2,        \* frame returned by the driver's call of enrich_with_weather
    new_df,          \* transform_data's frame just before dropna()
    df_transformed,  \* frame returned by transform_data
    csv,             \* content of deliveries.csv
    saves,           \* number of times save_results was entered
    raised,          \* the step whose exception run_pipeline caught, or "none"
    result           \* what run_pipeline returned: "None" while it runs

vars == <<pc, db, weather_file, weather_data, data, rng, df_deliveries,
          df_test2, new_df, df_transformed, csv, saves, raised, result>>

--------------------------------------------------------------------------
\* Bounds of the model.

\* Largest number of rows of the deliveries table.
MaxDeliveries == 2

--------------------------------------------------------------------------
\* Missing-value markers.

\* NaN / None in an object (string) column.
NaN == "NaN"

\* NaN in a float column (every real value of the model is positive).
NaNf == -1

\* NaT in a datetime64 column.
NaT == [year |-> 0, month |-> 0, day |-> 0, hour |-> 0]

\* A frame that does not exist (the call raised or was never made).
NoFrame == <<>>

--------------------------------------------------------------------------
\* Sequence helpers.

RECURSIVE Flatten(_)
Flatten(ss) == IF ss = <<>> THEN <<>> ELSE Head(ss) \o Flatten(Tail(ss))

--------------------------------------------------------------------------
\* extract_sqlite_data: the temporal key of every delivery.

\* pd.to_datetime(text, errors='coerce') on the TEXT column written with
\* strftime('%Y-%m-%d %H:%M:%S'): the timestamp, or NaT when the text does
\* not parse.
to_datetime(text) ==
    CASE text = "2024-04-01 07:15:00" -> [year |-> 2024, month |-> 4, day |-> 1, hour |-> 7]
      [] text = "2024-04-01 08:40:00" -> [year |-> 2024, month |-> 4, day |-> 1, hour |-> 8]
      [] text = "2024-04-02 07:05:00" -> [year |-> 2024, month |-> 4, day |-> 2, hour |-> 7]
      [] OTHER -> NaT

\* A number printed on two digits (%m, %d).
Pad2(n) == IF n < 10 THEN "0" \o ToString(n) ELSE ToString(n)

\* Series.dt.strftime('%Y-%m-%d'): NaN for NaT.
strftime(ts) ==
    IF ts = NaT THEN NaN
    ELSE ToString(ts.year) \o "-" \o Pad2(ts.month) \o "-" \o Pad2(ts.day)

\* Series.dt.hour.astype(str).  dt.hour is an integer column when no value of
\* the column is NaT, and a float64 column (NaN for NaT) as soon as one is:
\* astype(str) then prints 7 as "7.0" and NaN as "nan".
hour_astype_str(ts, hasna) ==
    IF ~hasna THEN ToString(ts.hour)
    ELSE IF ts = NaT THEN "nan"
    ELSE ToString(ts.hour) \o ".0"

\* Whether the parsed pickup_datetime column of the table holds a NaT.
HasNaT(table) == \E i \in 1..Len(table) : to_datetime(table[i].pickup_datetime) = NaT

\* One row of the frame extract_sqlite_data returns.
ExtractRow(r, hasna) ==
    [delivery_id     |-> r.delivery_id,
     pickup_datetime |-> to_datetime(r.pickup_datetime),
     package_type    |-> r.package_type,
     delivery_zone   |-> r.delivery_zone,
     recipient_id    |-> r.recipient_id,
     pickup_date     |-> strftime(to_datetime(r.pickup_datetime)),
     pickup_hour     |-> hour_astype_str(to_datetime(r.pickup_datetime), hasna)]

extract_sqlite_data(table) ==
    [i \in 1..Len(table) |-> ExtractRow(table[i], HasNaT(table))]

--------------------------------------------------------------------------
\* enrich_with_weather: the left join on (pickup_date, pickup_hour).

\* The order in which a dict is iterated (its insertion order): dates, then hours.
DateOrder == <<"2024-04-01", "2024-04-02">>

HourOrder == <<"7", "8">>

\* The keys of dict d, in iteration order.
DictKeys(d, order) == SelectSeq(order, LAMBDA k : k \in DOMAIN d)

\* The records of one date.
HourRecords(date_str, hours) ==
    LET ks == DictKeys(hours, HourOrder)
    IN  [j \in 1..Len(ks) |-> [pickup_date      |-> date_str,
                               pickup_hour      |-> ks[j],
                               WeatherCondition |-> hours[ks[j]]]]

\* The list the two nested loops append to.
weather_records(weather) ==
    LET ds == DictKeys(weather, DateOrder)
    IN  Flatten([i \in 1..Len(ds) |-> HourRecords(ds[i], weather[ds[i]])])

\* The rows pd.merge(how='left') produces for one left row: one per matching
\* right record, or one with a missing WeatherCondition when none matches.
MergeRow(row, records) ==
    LET matches == SelectSeq(records, LAMBDA w : /\ w.pickup_date = row.pickup_date
                                                 /\ w.pickup_hour = row.pickup_hour)
    IN  IF matches = <<>>
        THEN << row @@ [WeatherCondition |-> NaN] >>
        ELSE [j \in 1..Len(matches) |->
                 row @@ [WeatherCondition |-> matches[j].WeatherCondition]]

merge_left(df, records) == Flatten([i \in 1..Len(df) |-> MergeRow(df[i], records)])

\* pd.DataFrame([]) has no columns: merging on pickup_date / pickup_hour then
\* raises KeyError.
enrich_raises(df, weather) == weather_records(weather) = <<>>

enrich_with_weather(df, weather) == merge_left(df, weather_records(weather))

--------------------------------------------------------------------------
\* transform_data: the delivery time model and the projection.

\* Series.dt.day_name(): NaN for NaT.
day_name(ts) ==
    CASE ts = NaT -> NaN
      [] ts.year = 2024 /\ ts.month = 4 /\ ts.day = 1 -> "Monday"
      [] ts.year = 2024 /\ ts.month = 4 /\ ts.day = 2 -> "Tuesday"
      [] OTHER -> "Wednesday"

\* n / d rounded to the nearest integer, ties to even (numpy's round).
RoundHalfEven(n, d) ==
    LET q == n \div d
        r == n % d
    IN  IF 2 * r < d THEN q
        ELSE IF 2 * r > d THEN q + 1
        ELSE IF q % 2 = 0 THEN q ELSE q + 1

\* Distance * rate + 30, rounded to 2 decimals (1/100).
actual_delivery_time(distance, rate) == RoundHalfEven(distance * rate, 100) + 3000

\* parcel with a default: a package_type outside the dict gets the factor 1.
parcel_default(package_type) ==
    CASE package_type = "Medium"  -> 12
      [] package_type = "Large"   -> 15
      [] package_type = "X-Large" -> 20
      [] package_type = "Special" -> 25
      [] OTHER -> 10

\* Series.map(parcel), in 1/10: a value that is no key of the dict maps to NaN.
parcel(package_type) ==
    CASE package_type = "Small"   -> 10
      [] package_type = "Medium"  -> 12
      [] package_type = "Large"   -> 15
      [] package_type = "X-Large" -> 20
      [] package_type = "Special" -> 25
      [] OTHER -> NaNf

\* Series.map(zone), in 1/10.
zone(delivery_zone) ==
    CASE delivery_zone = "Urban"           -> 12
      [] delivery_zone = "Suburban"        -> 10
      [] delivery_zone = "Rural"           -> 13
      [] delivery_zone = "Industrial"      -> 9
      [] delivery_zone = "Shopping Center" -> 14
      [] OTHER -> NaNf

\* Series.map(weather), in 1/20.
weather(condition) ==
    CASE condition = "Sunny"  -> 20
      [] condition = "Cloudy" -> 21
      [] condition = "Rainy"  -> 24
      [] condition = "Windy"  -> 22
      [] condition = "Snowy"  -> 36
      [] condition = "Foggy"  -> 26
      [] OTHER -> NaNf

\* fillna left out: the missing weather factor stays missing.
fillna_none(x) == x

\* .fillna(1) on the weather factor only (1 is 20/20).
fillna(x) == IF x = NaNf THEN 20 ELSE x

\* A float product: NaN as soon as one operand is NaN.
Mul(a, b) == IF a = NaNf \/ b = NaNf THEN NaNf ELSE a * b

\* 30 + Distance * 0.8, in 1/500.
base_theoretical_time(distance) == 15000 + 4 * distance

\* parcel * zone * weather.fillna(1), in 1/2000.
adjustment(package_type, delivery_zone, condition) ==
    Mul(Mul(parcel(package_type), zone(delivery_zone)), fillna(weather(condition)))

\* Base_Theoretical_Time * Adjustment, in 1/1000000.
adjusted_time(base, adj) == Mul(base, adj)

\* delay_threshold without the 20% tolerance band
\* (Adjusted_Time * 1.0 in 1/2500000).
delay_threshold_noband(adjusted) ==
    IF adjusted = NaNf THEN NaNf ELSE (adjusted * 5) \div 2

\* Adjusted_Time * 1.2, in 1/2500000.
delay_threshold(adjusted) == Mul(adjusted, 3)

\* status with >= in place of >.
status_ge(actual, threshold) ==
    IF threshold # NaNf /\ actual * 25000 >= threshold THEN "Delayed" ELSE "On-time"

\* np.where(Actual_Delivery_Time > Delay_Threshold, 'Delayed', 'On-time'):
\* a comparison with NaN is False.  actual is in 1/100, threshold in 1/2500000.
status(actual, threshold) ==
    IF threshold # NaNf /\ actual * 25000 > threshold THEN "Delayed" ELSE "On-time"

\* The columns lines 214-247 add to one row; draw is the row's pair of
\* random numbers.
ScoreRow(row, draw) ==
    LET dist == draw.Distance
        act  == actual_delivery_time(dist, draw.rate)
        base == base_theoretical_time(dist)
        adj  == adjustment(row.package_type, row.delivery_zone, row.WeatherCondition)
        adjt == adjusted_time(base, adj)
        thr  == delay_threshold(adjt)
    IN  row @@ [Distance              |-> dist,
                Actual_Delivery_Time  |-> act,
                Weekday               |-> day_name(row.pickup_datetime),
                Base_Theoretical_Time |-> base,
                Adjustment            |-> adj,
                Adjusted_Time         |-> adjt,
                Delay_Threshold       |-> thr,
                Status                |-> status(act, thr)]

\* The frame of transform_data just before dropna().  The merged frame has one
\* row per draw whenever the join keeps the row count.
score(merged, draws) ==
    [i \in 1..Len(merged) |-> ScoreRow(merged[i], draws[i])]

\* notna of a dropna(subset=...) that leaves WeatherCondition out.
notna_noweather(row) ==
    /\ row.pickup_datetime # NaT
    /\ row.pickup_date # NaN
    /\ row.Weekday # NaN
    /\ row.Adjustment # NaNf
    /\ row.Adjusted_Time # NaNf
    /\ row.Delay_Threshold # NaNf

\* Whether DataFrame.dropna() keeps the row: no cell of it is missing.
notna(row) ==
    /\ row.pickup_datetime # NaT
    /\ row.package_type # NaN
    /\ row.delivery_zone # NaN
    /\ row.pickup_date # NaN
    /\ row.pickup_hour # NaN
    /\ row.WeatherCondition # NaN
    /\ row.Weekday # NaN
    /\ row.Distance # NaNf
    /\ row.Actual_Delivery_Time # NaNf
    /\ row.Base_Theoretical_Time # NaNf
    /\ row.Adjustment # NaNf
    /\ row.Adjusted_Time # NaNf
    /\ row.Delay_Threshold # NaNf
    /\ row.Status # NaN

dropna(df) == SelectSeq(df, notna)

\* new_df[needed_col]
needed_col(row) ==
    [delivery_id          |-> row.delivery_id,
     pickup_datetime      |-> row.pickup_datetime,
     Weekday              |-> row.Weekday,
     pickup_date          |-> row.pickup_date,
     pickup_hour          |-> row.pickup_hour,
     package_type         |-> row.package_type,
     Distance             |-> row.Distance,
     delivery_zone        |-> row.delivery_zone,
     WeatherCondition     |-> row.WeatherCondition,
     Actual_Delivery_Time |-> row.Actual_Delivery_Time,
     Status               |-> row.Status]

project(df) == [i \in 1..Len(df) |-> needed_col(df[i])]

\* transform_data up to line 247.
transform_scored(df, weather_map, draws) ==
    score(enrich_with_weather(df, weather_map), draws)

\* transform_data: what it returns.
transform_data(df, weather_map, draws) ==
    project(dropna(transform_scored(df, weather_map, draws)))

--------------------------------------------------------------------------
\* The inputs the model draws.

\* pickup_datetime TEXT values: three that parse and one that does not.
TimestampTexts ==
    {"2024-04-01 07:15:00", "2024-04-01 08:40:00", "2024-04-02 07:05:00", "not-a-date"}

ValidTimestampTexts == {t \in TimestampTexts : to_datetime(t) # NaT}

package_types == {"Small", "Medium", "Large", "X-Large", "Special"}

delivery_zones == {"Urban", "Suburban", "Rural", "Industrial", "Shopping Center"}

conditions == {"Sunny", "Cloudy", "Rainy", "Windy", "Snowy", "Foggy"}

\* (package_type, delivery_zone) of a stored row: both known, or one unknown.
CategorySample == {<<"Small", "Urban">>, <<"Unknown", "Urban">>, <<"Large", "Mars">>}

\* A stored row number i.
DbRow(i, text, cat) ==
    [delivery_id     |-> i,
     pickup_datetime |-> text,
     package_type    |-> cat[1],
     delivery_zone   |-> cat[2],
     recipient_id    |-> 1]

\* The tables of n rows with the given texts and categories; delivery_id is
\* the PRIMARY KEY 1..n.
TablesOf(n, texts, cats) ==
    {[i \in 1..n |-> DbRow(i, f[i][1], f[i][2])] : f \in [1..n -> texts \X cats]}

Tables == UNION {TablesOf(n, TimestampTexts, CategorySample) : n \in 0..MaxDeliveries}

\* A weather log with one distinct condition per (date, hour), and every
\* mapping obtained from it by removing dates or hours (gaps).
FullWeather ==
    [d \in {"2024-04-01", "2024-04-02"} |->
        IF d = "2024-04-01" THEN [h \in {"7", "8"} |-> IF h = "7" THEN "Rainy" ELSE "Snowy"]
                            ELSE [h \in {"7", "8"} |-> IF h = "7" THEN "Sunny" ELSE "Cloudy"]]

Restrict(f, S) == [x \in S |-> f[x]]

WeatherMaps ==
    UNION {{[d \in D |-> Restrict(FullWeather[d], H[d])] :
               H \in [D -> SUBSET {"7", "8"}]} : D \in SUBSET DOMAIN FullWeather}

\* Draws of np.random.uniform(1, 50) rounded to 2 decimals (1/100) and of
\* np.random.uniform(0.8, 1.5) (1/100).
DistanceGrid == {100, 1000, 2000, 2500, 5000}

RateGrid == {80, 100, 120, 150}

Draws == [Distance : DistanceGrid, rate : RateGrid]

\* The stream used where the scoring is not what is examined: the draws
\* alternate between two points of the grid.
RngSample ==
    {[i \in 1..(MaxDeliveries + 1) |->
        IF i % 2 = 1 THEN [Distance |-> 2500, rate |-> 120]
                     ELSE [Distance |-> 5000, rate |-> 150]]}

--------------------------------------------------------------------------
\* run_pipeline, one action per call it makes.

\* Raise of a driver that logs the exception and goes on to the loading step
\* (save_results in a finally clause).
Raise_finally(step) ==
    /\ pc' = "save"
    /\ raised' = step
    /\ result' = "None"

\* except Exception: log and return False.
Raise(step) ==
    /\ pc' = "done"
    /\ raised' = step
    /\ result' = "False"

\* create_sqlite_database: MaxDeliveries rows (1000 in the source) with
\* well-formed timestamps and categories from the two lists.
CreateSqliteDatabase ==
    /\ pc = "create"
    /\ \/ /\ db' \in TablesOf(MaxDeliveries, ValidTimestampTexts,
                              {<<"Small", "Urban">>, <<"Special", "Industrial">>})
          /\ pc' = "generate"
          /\ UNCHANGED <<raised, result>>
       \/ /\ Raise("create")
          /\ UNCHANGED db
    /\ UNCHANGED <<weather_file, weather_data, data, rng, df_deliveries, df_test2,
                   new_df, df_transformed, csv, saves>>

\* generate_weather_data: every hour of every date of the range, written to
\* the JSON file and returned.
GenerateWeatherData ==
    /\ pc = "generate"
    /\ \/ /\ weather_data' \in [DOMAIN FullWeather -> [{"7", "8"} -> {"Sunny", "Snowy"}]]
          /\ weather_file' = weather_data'
          /\ pc' = "extract"
          /\ UNCHANGED <<raised, result>>
       \/ /\ Raise("generate")
          /\ UNCHANGED <<weather_data, weather_file>>
    /\ UNCHANGED <<db, data, rng, df_deliveries, df_test2, new_df, df_transformed,
                   csv, saves>>

ExtractSqliteData ==
    /\ pc = "extract"
    /\ \/ /\ df_deliveries' = extract_sqlite_data(db)
          /\ pc' = "load"
          /\ UNCHANGED <<raised, result>>
       \/ /\ Raise("extract")
          /\ UNCHANGED df_deliveries
    /\ UNCHANGED <<db, weather_file, weather_data, data, rng, df_test2, new_df,
                   df_transformed, csv, saves>>

LoadWeatherData ==
    /\ pc = "load"
    /\ \/ /\ data' = weather_file
          /\ pc' = "enrich"
          /\ UNCHANGED <<raised, result>>
       \/ /\ Raise("load")
          /\ UNCHANGED data
    /\ UNCHANGED <<db, weather_file, weather_data, rng, df_deliveries, df_test2,
                   new_df, df_transformed, csv, saves>>

\* df_test2 = enrich_with_weather(df_deliveries, data)
EnrichWithWeather ==
    /\ pc = "enrich"
    /\ IF enrich_raises(df_deliveries, data)
       THEN /\ Raise("enrich")
            /\ UNCHANGED df_test2
       ELSE /\ df_test2' = enrich_with_weather(df_deliveries, data)
            /\ pc' = "transform"
            /\ UNCHANGED <<raised, result>>
    /\ UNCHANGED <<db, weather_file, weather_data, data, rng, df_deliveries, new_df,
                   df_transformed, csv, saves>>

\* df_transformed = transform_data(df_deliveries, weather_data)
TransformData ==
    /\ pc = "transform"
    /\ IF enrich_raises(df_deliveries, weather_data)
       THEN /\ Raise("transform")
            /\ UNCHANGED <<new_df, df_transformed>>
       ELSE /\ new_df' = transform_scored(df_deliveries, weather_data, rng)
            /\ df_transformed' = transform_data(df_deliveries, weather_data, rng)
            /\ pc' = "save"
            /\ UNCHANGED <<raised, result>>
    /\ UNCHANGED <<db, weather_file, weather_data, data, rng, df_deliveries, df_test2,
                   csv, saves>>

\* save_results(df_transformed), then return True.
SaveResults ==
    /\ pc = "save"
    /\ saves' = saves + 1
    /\ \/ /\ csv' = df_transformed
          /\ pc' = "done"
          /\ result' = "True"
          /\ UNCHANGED raised
       \/ /\ Raise("save")
          /\ UNCHANGED csv
    /\ UNCHANGED <<db, weather_file, weather_data, data, rng, df_deliveries, df_test2,
                   new_df, df_transformed>>

\* The state shared by every initial state.
InitLocals ==
    /\ data = <<>>
    /\ df_deliveries = NoFrame
    /\ df_test2 = NoFrame
    /\ new_df = NoFrame
    /\ df_transformed = NoFrame
    /\ csv = NoFrame
    /\ saves = 0
    /\ raised = "none"
    /\ result = "None"

\* The pipeline from its extraction step on, over any stored table and any
\* stored weather mapping.
Init ==
    /\ pc = "extract"
    /\ db \in Tables
    /\ weather_data \in WeatherMaps
    /\ weather_file = weather_data
    /\ rng \in RngSample
    /\ InitLocals

Next ==
    \/ ExtractSqliteData
    \/ LoadWeatherData
    \/ EnrichWithWeather
    \/ TransformData
    \/ SaveResults

Spec == Init /\ [][Next]_vars

\* One stored delivery scored over every category, every weather condition
\* (or none) and a grid of draws.
ScoreInit ==
    /\ pc = "extract"
    /\ db \in TablesOf(1, {"2024-04-01 07:15:00"},
                       (package_types \cup {"Unknown"}) \X (delivery_zones \cup {"Mars"}))
    /\ weather_data \in
          {[d \in {"2024-04-01"} |-> [h \in {"7"} |-> c]] : c \in conditions}
             \cup {[d \in {"2024-04-02"} |-> [h \in {"7"} |-> "Sunny"]]}
    /\ weather_file = weather_data
    /\ rng \in [1..1 -> Draws]
    /\ InitLocals

ScoreSpec == ScoreInit /\ [][Next]_vars

\* run_pipeline from its first line.
PipelineInit ==
    /\ pc = "create"
    /\ db = <<>>
    /\ weather_data = <<>>
    /\ weather_file = <<>>
    /\ rng \in RngSample
    /\ InitLocals

PipelineNext ==
    \/ CreateSqliteDatabase
    \/ GenerateWeatherData
    \/ Next

PipelineSpec == PipelineInit /\ [][PipelineNext]_vars

--------------------------------------------------------------------------
\* Where the driver is.

\* extract_sqlite_data returned.
Extracted ==
    \/ pc \in {"load", "enrich", "transform", "save"}
    \/ pc = "done" /\ raised \in {"load", "enrich", "transform", "save", "none"}

\* enrich_with_weather(df_deliveries, data) was called.
EnrichCalled ==
    \/ pc \in {"transform", "save"}
    \/ pc = "done" /\ raised \in {"enrich", "transform", "save", "none"}

EnrichReturned == EnrichCalled /\ raised # "enrich"

\* transform_data(df_deliveries, weather_data) was called.
TransformCalled ==
    \/ pc = "save"
    \/ pc = "done" /\ raised \in {"transform", "save", "none"}

TransformReturned == TransformCalled /\ raised # "transform"

\* The delivery_ids of a frame.
Ids(df) == {df[i].delivery_id : i \in 1..Len(df)}

\* The (date, hour) of a parsed timestamp as the weather log writes them.
DateOf(ts) == ToString(ts.year) \o "-" \o Pad2(ts.month) \o "-" \o Pad2(ts.day)

HourOf(ts) == ToString(ts.hour)

\* The weather log's value at the (date, hour) of timestamp ts, or NaN.
Observation(weather_map, ts) ==
    IF /\ ts # NaT
       /\ DateOf(ts) \in DOMAIN weather_map
       /\ HourOf(ts) \in DOMAIN weather_map[DateOf(ts)]
    THEN weather_map[DateOf(ts)][HourOf(ts)]
    ELSE NaN

KnownCategory(r) ==
    r.package_type \in package_types /\ r.delivery_zone \in delivery_zones

--------------------------------------------------------------------------
\* Claims on the join and the projection (Spec).

\* C1 (as stated): for any deliveries and any weather mapping,
\* enrich_with_weather returns exactly one enriched row per input delivery, in
\* order, and the final output of transform_data holds each input delivery_id
\* at most once and no other delivery_id.
C1_RowConservation ==
    /\ EnrichCalled =>
          /\ raised # "enrich"
          /\ Len(df_test2) = Len(df_deliveries)
          /\ \A i \in 1..Len(df_test2) :
                df_test2[i].delivery_id = df_deliveries[i].delivery_id
    /\ TransformReturned =>
          /\ Ids(df_transformed) \subseteq Ids(db)
          /\ Cardinality(Ids(df_transformed)) = Len(df_transformed)
          /\ Len(df_transformed) <= Len(db)

\* C2 (as stated): after enrich_with_weather every delivery's WeatherCondition
\* is the weather log's value at the (date, hour) of its pickup timestamp when
\* the log has that key, and is unset otherwise.
C2_JoinCompleteness ==
    EnrichReturned =>
        /\ Len(df_test2) = Len(db)
        /\ \A i \in 1..Len(db) :
              df_test2[i].WeatherCondition
                  = Observation(data, to_datetime(db[i].pickup_datetime))

\* C3 (as stated): a delivery whose weather join missed but whose timestamp,
\* package_type and delivery_zone are valid is in the final output of
\* transform_data, scored with the neutral weather factor.
C3_WeatherMissKept ==
    TransformReturned =>
        \A i \in 1..Len(new_df) :
            ( /\ new_df[i].WeatherCondition = NaN
              /\ new_df[i].pickup_datetime # NaT
              /\ KnownCategory(new_df[i]) )
            => /\ new_df[i].Adjustment
                    = parcel(new_df[i].package_type) * zone(new_df[i].delivery_zone) * 20
               /\ new_df[i].delivery_id \in Ids(df_transformed)

\* C4: every row transform_data returns has a weather condition, a parsed
\* pickup_datetime with its pickup_date and Weekday, a known package_type and
\* delivery_zone, and a populated Distance, Actual_Delivery_Time and Status.
C4_OutputComplete ==
    TransformReturned =>
        \A i \in 1..Len(df_transformed) :
            LET row == df_transformed[i]
            IN  /\ row.WeatherCondition # NaN
                /\ row.pickup_datetime # NaT
                /\ row.pickup_date # NaN
                /\ row.Weekday # NaN
                /\ row.package_type \in package_types
                /\ row.delivery_zone \in delivery_zones
                /\ row.Distance # NaNf
                /\ row.Actual_Delivery_Time # NaNf
                /\ row.Status \in {"On-time", "Delayed"}

\* C4 witness: transform_data returned a row and removed another.
C4_Witness ==
    /\ TransformReturned
    /\ Len(df_transformed) >= 1
    /\ Len(df_transformed) < Len(db)

\* The table with every unknown package_type or delivery_zone replaced by a
\* known one, the rows otherwise as stored.
Recategorised(table) ==
    [i \in 1..Len(table) |->
        IF KnownCategory(table[i]) THEN table[i]
        ELSE [table[i] EXCEPT !.package_type = "Small", !.delivery_zone = "Urban"]]

UnknownIds(table) == {table[i].delivery_id : i \in {j \in 1..Len(table) : ~KnownCategory(table[j])}}

\* C7: a delivery with an unknown package_type or delivery_zone is in the
\* frame after the model computation with an unset Adjustment and is absent
\* from the final output; the unknown category does not make transform_data
\* raise, and the other deliveries are output exactly as they are when that
\* delivery's category is a known one.
C7_UnknownCategoryDrop ==
    /\ TransformReturned =>
          /\ \A i \in 1..Len(db) :
                ~KnownCategory(db[i]) =>
                    /\ \E j \in 1..Len(new_df) :
                          /\ new_df[j].delivery_id = db[i].delivery_id
                          /\ new_df[j].Adjustment = NaNf
                    /\ db[i].delivery_id \notin Ids(df_transformed)
          /\ Ids(df_transformed)
                = Ids(transform_data(extract_sqlite_data(Recategorised(db)), weather_data, rng))
                     \ UnknownIds(db)
    /\ (TransformCalled /\ raised = "transform") =>
          enrich_raises(extract_sqlite_data(Recategorised(db)), weather_data)

\* C7 witness: a table with an unknown-category delivery and another delivery
\* that is output.
C7_Witness ==
    /\ TransformReturned
    /\ \E i \in 1..Len(db) : ~KnownCategory(db[i])
    /\ Len(df_transformed) >= 1

\* C9 (as stated): the join key, the WeatherCondition and the presence in the
\* final output of a delivery are those it gets when it is the only row of the
\* table: they do not depend on the other deliveries of the batch.
C9_RowIndependence ==
    /\ Extracted =>
          \A i \in 1..Len(db) :
              LET alone == extract_sqlite_data(<<db[i]>>)[1]
              IN  /\ df_deliveries[i].pickup_date = alone.pickup_date
                  /\ df_deliveries[i].pickup_hour = alone.pickup_hour
    /\ EnrichReturned =>
          \A i \in 1..Len(db) :
              df_test2[i].WeatherCondition
                  = enrich_with_weather(extract_sqlite_data(<<db[i]>>), data)[1].WeatherCondition
    /\ TransformReturned =>
          \A i \in 1..Len(db) :
              (db[i].delivery_id \in Ids(df_transformed))
                  <=> (transform_data(extract_sqlite_data(<<db[i]>>), weather_data, rng) # <<>>)

--------------------------------------------------------------------------
\* Claims on the delivery time model (ScoreSpec).

\* The factor tables of the specification, in 1/100.
SpecPackageFactor ==
    [p \in package_types |->
        CASE p = "Small" -> 100 [] p = "Medium" -> 120 [] p = "Large" -> 150
          [] p = "X-Large" -> 200 [] p = "Special" -> 250]

SpecZoneFactor ==
    [z \in delivery_zones |->
        CASE z = "Urban" -> 120 [] z = "Suburban" -> 100 [] z = "Rural" -> 130
          [] z = "Industrial" -> 90 [] z = "Shopping Center" -> 140]

SpecWeatherFactor ==
    [c \in conditions \cup {NaN} |->
        CASE c = "Sunny" -> 100 [] c = "Cloudy" -> 105 [] c = "Rainy" -> 120
          [] c = "Windy" -> 110 [] c = "Snowy" -> 180 [] c = "Foggy" -> 130
          [] c = NaN -> 100]

\* C5: for every scored delivery Status is Delayed exactly when
\* Actual_Delivery_Time > (30 + Distance * 0.8) * Adjustment * 1.2 (that is
\* Actual/100 > (3000 + 0.8 D)/100 * A/2000 * 6/5, cross-multiplied; never
\* when the Adjustment is unset), equality is On-time, and distance 10,
\* Small, Suburban, Sunny has threshold 45.6: actual 40 is On-time and
\* actual 50 is Delayed.
C5_ThresholdConsistency ==
    /\ TransformReturned =>
          \A i \in 1..Len(new_df) :
              LET row == new_df[i]
              IN  IF ~KnownCategory(row) THEN row.Status = "On-time" ELSE
                    /\ (row.Status = "Delayed")
                          <=> (row.Actual_Delivery_Time * 25000
                                  > (15000 + 4 * row.Distance) * row.Adjustment * 3)
                    /\ (row.Actual_Delivery_Time * 25000
                           = (15000 + 4 * row.Distance) * row.Adjustment * 3)
                          => row.Status = "On-time"
    /\ LET thr == delay_threshold(adjusted_time(base_theoretical_time(1000),
                                                adjustment("Small", "Suburban", "Sunny")))
       IN  /\ thr = 4560 * 25000
           /\ status(4000, thr) = "On-time"
           /\ status(5000, thr) = "Delayed"

\* C5 witness: a scored delivery whose Actual_Delivery_Time equals its
\* Delay_Threshold.
C5_Witness ==
    /\ TransformReturned
    /\ \E i \in 1..Len(new_df) :
          /\ new_df[i].Delay_Threshold # NaNf
          /\ new_df[i].Actual_Delivery_Time * 25000 = new_df[i].Delay_Threshold

\* C6: for every delivery with known package_type and delivery_zone,
\* Adjustment is the product of the three table factors, the weather factor
\* being 1.0 when WeatherCondition is unset, so that an unset-weather delivery
\* has the Adjustment of the same delivery under Sunny; Medium + Urban + Rainy
\* gives 1.728.
C6_AdjustmentFactor ==
    /\ TransformReturned =>
          \A i \in 1..Len(new_df) :
              LET row == new_df[i]
              IN  (KnownCategory(row) /\ row.WeatherCondition \in conditions \cup {NaN}) =>
                    /\ row.Adjustment * 500
                          = SpecPackageFactor[row.package_type]
                              * SpecZoneFactor[row.delivery_zone]
                              * SpecWeatherFactor[row.WeatherCondition]
                    /\ row.WeatherCondition = NaN =>
                          row.Adjustment
                              = adjustment(row.package_type, row.delivery_zone, "Sunny")
    /\ adjustment("Medium", "Urban", "Rainy") * 1000 = 1728 * 2000

\* C6 witness: a scored delivery with known categories and no weather.
C6_Witness ==
    /\ TransformReturned
    /\ \E i \in 1..Len(new_df) :
          /\ KnownCategory(new_df[i])
          /\ new_df[i].WeatherCondition = NaN
          /\ new_df[i].Adjustment # NaNf

\* C10: with Distance in [1, 50] and rate in [0.8, 1.5], every delivery of
\* package_type Large, X-Large or Special is On-time, whatever the zone, the
\* weather (or none), the distance and the rate.
C10_HeavyNeverDelayed ==
    TransformReturned =>
        \A i \in 1..Len(new_df) :
            new_df[i].package_type \in {"Large", "X-Large", "Special"}
                => new_df[i].Status = "On-time"

\* C10 witness: a Large delivery at the largest distance and rate, in the zone
\* and weather of the smallest factors, scored On-time.
C10_Witness ==
    /\ TransformReturned
    /\ \E i \in 1..Len(new_df) :
          /\ new_df[i].package_type = "Large"
          /\ new_df[i].delivery_zone = "Industrial"
          /\ new_df[i].Adjustment = 15 * 9 * 20
          /\ new_df[i].Distance = 5000
          /\ new_df[i].Actual_Delivery_Time = 10500
          /\ new_df[i].Status = "On-time"

--------------------------------------------------------------------------
\* Claim on the driver (PipelineSpec).

\* C8: save_results is entered only after generation, extraction and
\* transformation completed; when one of them raised, run_pipeline returns
\* False, save_results was never entered and the sink is untouched;
\* run_pipeline returns True only after save_results wrote the frame.
C8_NoPartialWrite ==
    /\ raised \in {"create", "generate", "extract", "load", "enrich", "transform"}
          => saves = 0 /\ csv = NoFrame /\ result = "False" /\ pc = "done"
    /\ saves > 0 => TransformReturned /\ pc = "done" /\ saves = 1
    /\ result = "True" =>
          /\ saves = 1 /\ raised = "none" /\ pc = "done"
          /\ csv = df_transformed
          /\ Len(csv) = MaxDeliveries
    /\ (pc = "done" /\ raised # "none") => result = "False"
    /\ pc # "done" => result = "None" /\ raised = "none"

\* C8 witness: the weather source could not be read after the extraction, and
\* the run ended False with nothing saved.
C8_Witness ==
    /\ pc = "done"
    /\ raised = "load"
    /\ Len(df_deliveries) = MaxDeliveries
    /\ result = "False"
    /\ saves = 0

==========================================================================
